---- MODULE Spec2Model ----
(***************************************************************************)
(* plexmate88: the orchestrator of src/main.py driving the watchlist       *)
(* client (src/plex.py) and the search / download / transfer clients       *)
(* (src/tl.py).  One run of main() is modelled: the single watchlist       *)
(* retrieval, then the per-item state machine.  Every outbound call is a   *)
(* step whose outcome (a response, or a raised error) is chosen by the     *)
(* environment.                                                            *)
(***************************************************************************)
EXTENDS Integers, Sequences, FiniteSets, TLC

VARIABLES
    pc,               \* position of main(): main, loop, show, movie, download, transfer, return, done, failed
    response,         \* the HTTP response the watchlist call received
    watchlist,        \* value bound to `watchlist` in main()
    idx,              \* position of the for loop of main() (1-based)
    season,           \* loop variable of process_show
    result,           \* value bound to `result` by the last search_torrents call
    torrent,          \* argument of download_and_transfer_torrent
    media_type,       \* argument of download_and_transfer_torrent
    env,              \* process environment (REMOTE_PATH_BASE)
    log,              \* messages handed to logging.* (format strings)
    raised,           \* the client whose error escaped main(), "none" if none
    itemQueries,      \* queries issued for the current item, in order
    itemHits,         \* searches of the current item that returned a non-empty list
    queryAfterHit,    \* a query of the current item was issued after one of its hits
    itemDT,           \* calls of download_and_transfer_torrent for the current item
    itemDownloads,    \* download_torrent calls for the current item
    itemTransfers,    \* scp_file_to_remote calls for the current item
    lastSearch,       \* outcome of the last fetch_torrentleech_data call
    searches,         \* fetch_torrentleech_data calls of the run
    downloadsStarted, \* download_torrent calls of the run
    downloadsDone,    \* download_torrent calls that returned
    transfersStarted, \* scp_file_to_remote calls of the run
    transfersDone,    \* scp_file_to_remote calls that returned
    lastDownload,     \* arguments of the last download_torrent call
    lastTransfer,     \* arguments of the last scp_file_to_remote call
    callItems,        \* watchlist positions on whose behalf client calls were made, in order
    processed         \* watchlist positions whose process_watchlist_item returned, in order

vars == <<pc, response, watchlist, idx, season, result, torrent, media_type, env,
          log, raised, itemQueries, itemHits, queryAfterHit, itemDT, itemDownloads,
          itemTransfers, lastSearch, searches,
          downloadsStarted, downloadsDone, transfersStarted, transfersDone,
          lastDownload, lastTransfer, callItems, processed>>

(***************************************************************************)
(* Bounds of the model and constants of the program.                       *)
(***************************************************************************)
MaxItems == 2
MaxResults == 2
SeasonStart == 1
SeasonStop == 10
ZFillWidth == 2
HttpErrorFloor == 400

Items == {[title |-> "Foo", type |-> "movie", year |-> 2020],
          [title |-> "Bar", type |-> "show", year |-> 2019]}
ItemLists == UNION {[1..n -> Items] : n \in 0..MaxItems}

Candidates == {[fid |-> 1, filename |-> "foo.2020.mkv"],
               [fid |-> 2, filename |-> "bar.s01.mkv"]}
ResultLists == UNION {[1..n -> Candidates] : n \in 0..MaxResults}

RemotePathBases == {"/watch"}

(***************************************************************************)
(* Python values that the watchlist path handles.                          *)
(***************************************************************************)
PyNone == [t |-> "none"]
PyList(s) == [t |-> "list", items |-> s]
PyStr(s) == [t |-> "str", s |-> s]
PyDict(f) == [t |-> "dict", d |-> f]
EmptyDict == PyDict([k \in {} |-> PyNone])

Truthy(v) ==
    CASE v.t = "none" -> FALSE
      [] v.t = "list" -> v.items # <<>>
      [] v.t = "str" -> v.s # ""
      [] v.t = "dict" -> DOMAIN v.d # {}

DictGet(v, key, default) == IF key \in DOMAIN v.d THEN v.d[key] ELSE default

Returned(v) == [exc |-> "none", ret |-> v]
Raised(e) == [exc |-> e, ret |-> PyNone]

(***************************************************************************)
(* Watchlist client (src/plex.py).                                         *)
(***************************************************************************)
MediaContainerValues ==
    {PyNone, PyList(<<>>), EmptyDict,
     PyDict([k \in {"Metadata"} |-> PyNone]),
     PyDict([k \in {"Metadata"} |-> PyStr("x")])}
        \cup {PyDict([k \in {"Metadata"} |-> PyList(l)]) : l \in ItemLists}

JsonValues ==
    {PyNone, PyList(<<>>), PyStr("x"), EmptyDict}
        \cup {PyDict([k \in {"MediaContainer"} |-> m]) : m \in MediaContainerValues}

Bodies ==
    {[b |-> "empty"], [b |-> "blank"], [b |-> "notjson"]}
        \cup {[b |-> "json", val |-> v] : v \in JsonValues}

WatchlistResponses ==
    {[outcome |-> "transport_error"]}
        \cup {[outcome |-> "http", status |-> 404, body |-> [b |-> "notjson"]],
              [outcome |-> "http", status |-> 500, body |-> [b |-> "empty"]]}
        \cup {[outcome |-> "http", status |-> 200, body |-> b] : b \in Bodies}

\* PlexAPI._parse_response: `.get` on a value that is not a dict raises
\* AttributeError, which neither except clause catches
ParseResponse(body) ==
    IF body.b \in {"empty", "blank"} THEN Returned(PyNone)
    ELSE IF body.b = "notjson" THEN Returned(PyNone)
    ELSE LET data == body.val
         IN  IF data.t # "dict" THEN Raised("AttributeError")
             ELSE LET mc == DictGet(data, "MediaContainer", EmptyDict)
                  IN  IF mc.t # "dict" THEN Raised("AttributeError")
                      ELSE Returned(DictGet(mc, "Metadata", PyList(<<>>)))

\* PlexAPI.fetch_watchlist: RequestException (transport, HTTP status) -> None
PlexFetchWatchlist(r) ==
    IF r.outcome = "transport_error" THEN Returned(PyNone)
    ELSE IF r.status >= HttpErrorFloor THEN Returned(PyNone)
    ELSE ParseResponse(r.body)

\* fetch_watchlist of main.py without the `or []`
MainFetchWatchlistNoDefault(w) ==
    [ret |-> w, log |-> {"Fetching watchlist from Plex."}]

\* fetch_watchlist of main.py: warn on a falsy value and return `watchlist or []`
MainFetchWatchlist(w) ==
    IF Truthy(w)
    THEN [ret |-> w, log |-> {"Fetching watchlist from Plex."}]
    ELSE [ret |-> PyList(<<>>),
          log |-> {"Fetching watchlist from Plex.", "No items found in the watchlist."}]

(***************************************************************************)
(* Search wrapper and query construction (src/main.py, src/tl.py).         *)
(***************************************************************************)
SearchResponses ==
    {[outcome |-> "http_error"], [outcome |-> "no_torrentList"]}
        \cup {[outcome |-> "json", torrentList |-> r] : r \in ResultLists}

RECURSIVE ZFill(_, _)
\* str.zfill: left-pad with "0" up to the width
ZFill(s, width) == IF Len(s) >= width THEN s ELSE ZFill("0" \o s, width)

\* f"{item['title']} S{str(season).zfill(2)}"
ShowQuery(item, s) == item.title \o " S" \o ZFill(ToString(s), ZFillWidth)

\* a query without the year
MovieQueryTitleOnly(item) == item.title

\* f"{item['title']} {item['year']}"
MovieQuery(item) == item.title \o " " \o ToString(item.year)

\* search_torrents with the client's error caught and turned into no result
SearchTorrentsContained(resp) ==
    IF resp.outcome # "json"
    THEN [exc |-> "none", ret |-> <<>>,
          log |-> {"Searching for torrents with query: %s", "No torrents found for query: %s"}]
    ELSE IF resp.torrentList = <<>>
    THEN [exc |-> "none", ret |-> <<>>,
          log |-> {"Searching for torrents with query: %s", "No torrents found for query: %s"}]
    ELSE [exc |-> "none", ret |-> resp.torrentList,
          log |-> {"Searching for torrents with query: %s"}]

\* search_torrents: fetch_torrentleech_data(query)["torrentList"], no try/except
SearchTorrents(resp) ==
    IF resp.outcome = "http_error"
    THEN [exc |-> "HTTPError", ret |-> <<>>, log |-> {"Searching for torrents with query: %s"}]
    ELSE IF resp.outcome = "no_torrentList"
    THEN [exc |-> "KeyError", ret |-> <<>>, log |-> {"Searching for torrents with query: %s"}]
    ELSE IF resp.torrentList = <<>>
    THEN [exc |-> "none", ret |-> <<>>,
          log |-> {"Searching for torrents with query: %s", "No torrents found for query: %s"}]
    ELSE [exc |-> "none", ret |-> resp.torrentList,
          log |-> {"Searching for torrents with query: %s"}]

\* a selection that takes the last element of the list
SelectLast(r) == r[Len(r)]

\* result[0]
Select(r) == r[1]

\* '{base}/{media_type}/{filename}', the destination the interface description gives
RemotePathWithMediaType(base, mt, local_file) == base \o "/" \o mt \o "/" \o local_file

\* remote_path=f"{remote_path_base}/{local_file}" handed to scp_file_to_remote
RemotePath(base, mt, local_file) == base \o "/" \o local_file

\* a `break` after download_and_transfer_torrent in process_show
NextSeasonBreak(s) == SeasonStop

\* the for loop of process_show goes on with the next season after a hit
NextSeason(s) == s + 1

\* a main loop that skips the item after the current one
NextIndexSkip(i) == i + 2

\* the for loop of main() advances to the next item
NextIndex(i) == i + 1

\* a save path derived from the file id instead of the file name
SaveToFid(t) == ToString(t.fid)

\* third argument of download_torrent: torrent["filename"]
SaveTo(t) == t.filename

\* local_file = torrent["filename"]
LocalFile(t) == t.filename

CurItem == watchlist.items[idx]
InItem == pc \in {"show", "movie", "download", "transfer", "return"}
NoTorrent == [fid |-> 0, filename |-> ""]
NoDownload == [fid |-> 0, filename |-> "", save_to |-> ""]
NoTransfer == [file_path |-> "", remote_path |-> ""]

\* an error caught per item: the item is abandoned and the loop of main() goes on
PropagateCaughtPerItem(where) ==
    /\ pc' = "return"
    /\ raised' = where

\* no try/except in main.py: an error raised below main() ends the run
Propagate(where) ==
    /\ pc' = "failed"
    /\ raised' = where

Init ==
    /\ pc = "main"
    /\ response = [outcome |-> "none"]
    /\ watchlist = PyNone
    /\ idx = 0
    /\ season = 0
    /\ result = <<>>
    /\ torrent = NoTorrent
    /\ media_type = ""
    /\ env \in [REMOTE_PATH_BASE : RemotePathBases]
    /\ log = {}
    /\ raised = "none"
    /\ itemQueries = <<>>
    /\ itemHits = 0
    /\ queryAfterHit = FALSE
    /\ itemDT = 0
    /\ itemDownloads = 0
    /\ itemTransfers = 0
    /\ lastSearch = "none"
    /\ searches = 0
    /\ downloadsStarted = 0
    /\ downloadsDone = 0
    /\ transfersStarted = 0
    /\ transfersDone = 0
    /\ lastDownload = NoDownload
    /\ lastTransfer = NoTransfer
    /\ callItems = <<>>
    /\ processed = <<>>

itemVars == <<itemQueries, itemHits, queryAfterHit, itemDT, itemDownloads, itemTransfers>>
callVars == <<lastSearch, searches, downloadsStarted, downloadsDone, transfersStarted,
              transfersDone, lastDownload, lastTransfer, callItems>>

(***************************************************************************)
(* main(): the watchlist retrieval (main.py 162-168, plex.py 29-63).       *)
(***************************************************************************)
FetchWatchlist ==
    /\ pc = "main"
    /\ \E r \in WatchlistResponses :
         LET got == PlexFetchWatchlist(r)
             w == MainFetchWatchlist(got.ret)
         IN  /\ response' = r
             /\ IF got.exc # "none"
                THEN /\ Propagate("watchlist")
                     /\ log' = log \cup {"Fetching watchlist from Plex."}
                     /\ UNCHANGED <<watchlist, idx>>
                ELSE /\ pc' = "loop"
                     /\ watchlist' = w.ret
                     /\ log' = log \cup w.log
                     /\ idx' = 1
                     /\ UNCHANGED raised
    /\ UNCHANGED <<season, result, torrent, media_type, env, processed>>
    /\ UNCHANGED <<itemVars, callVars>>

(***************************************************************************)
(* main(): `for item in watchlist: process_watchlist_item(item)`.          *)
(***************************************************************************)
\* an element of a value that is not a list of records: item["type"] raises TypeError
BeginItemTypeError ==
    /\ pc = "loop"
    /\ watchlist.t = "str"
    /\ pc' = "failed"
    /\ raised' = "item"
    /\ UNCHANGED <<response, watchlist, idx, season, result, torrent, media_type, env,
                   log, processed>>
    /\ UNCHANGED <<itemVars, callVars>>

\* process_watchlist_item dispatches on item["type"]
BeginItem ==
    /\ pc = "loop"
    /\ watchlist.t = "list"
    /\ idx <= Len(watchlist.items)
    /\ IF CurItem.type = "show"
       THEN /\ pc' = "show"
            /\ season' = SeasonStart
            /\ log' = log \cup {"Processing show: %s"}
       ELSE /\ pc' = "movie"
            /\ UNCHANGED <<season, log>>
    /\ UNCHANGED <<response, watchlist, idx, result, torrent, media_type, env, raised,
                   processed>>
    /\ UNCHANGED <<itemVars, callVars>>

\* the loop is exhausted: logging.info("All items processed successfully.")
MainFinish ==
    /\ pc = "loop"
    /\ watchlist.t = "list"
    /\ idx > Len(watchlist.items)
    /\ pc' = "done"
    /\ log' = log \cup {"All items processed successfully."}
    /\ UNCHANGED <<response, watchlist, idx, season, result, torrent, media_type, env,
                   raised, processed>>
    /\ UNCHANGED <<itemVars, callVars>>

\* process_show / process_movie returned: process_watchlist_item logs and returns,
\* its locals go out of scope, and the for loop of main() moves on
ItemReturns ==
    /\ pc = "return"
    /\ pc' = "loop"
    /\ log' = log \cup {"Successfully processed item: %s"}
    /\ processed' = Append(processed, idx)
    /\ idx' = NextIndex(idx)
    /\ season' = 0
    /\ result' = <<>>
    /\ torrent' = NoTorrent
    /\ media_type' = ""
    /\ itemQueries' = <<>>
    /\ itemHits' = 0
    /\ queryAfterHit' = FALSE
    /\ itemDT' = 0
    /\ itemDownloads' = 0
    /\ itemTransfers' = 0
    /\ UNCHANGED <<response, watchlist, env, raised>>
    /\ UNCHANGED callVars

NoteCall == IF callItems # <<>> /\ callItems[Len(callItems)] = idx
            THEN callItems ELSE Append(callItems, idx)

\* search_torrents(query) as called by process_show and process_movie; `next`
\* is where the caller goes on an empty result
Search(query, next) ==
    \E resp \in SearchResponses :
      LET got == SearchTorrents(resp)
      IN  /\ searches' = searches + 1
          /\ lastSearch' = resp.outcome
          /\ itemQueries' = Append(itemQueries, query)
          /\ queryAfterHit' = (queryAfterHit \/ itemHits > 0)
          /\ callItems' = NoteCall
          /\ log' = log \cup got.log
          /\ IF got.exc # "none"
             THEN /\ Propagate("search")
                  /\ UNCHANGED <<result, torrent, itemHits, itemDT>>
             ELSE IF got.ret = <<>>
             THEN /\ result' = got.ret
                  /\ pc' = next
                  /\ UNCHANGED <<raised, torrent, itemHits, itemDT>>
             ELSE /\ result' = got.ret
                  /\ pc' = "download"
                  /\ torrent' = Select(got.ret)
                  /\ itemHits' = itemHits + 1
                  /\ itemDT' = itemDT + 1
                  /\ UNCHANGED raised

(***************************************************************************)
(* process_show (main.py 111-125).                                         *)
(***************************************************************************)
ShowSearch ==
    /\ pc = "show"
    /\ season < SeasonStop
    /\ Search(ShowQuery(CurItem, season), "show")
    /\ season' = IF pc' = "show" THEN season + 1 ELSE season
    /\ media_type' = IF pc' = "download" THEN "series" ELSE media_type
    /\ UNCHANGED <<response, watchlist, idx, env, processed, itemDownloads,
                   itemTransfers, downloadsStarted, downloadsDone, transfersStarted,
                   transfersDone, lastDownload, lastTransfer>>

\* range(1, 10) is exhausted: process_show returns
ShowDone ==
    /\ pc = "show"
    /\ season >= SeasonStop
    /\ pc' = "return"
    /\ UNCHANGED <<response, watchlist, idx, season, result, torrent, media_type, env,
                   log, raised, processed>>
    /\ UNCHANGED <<itemVars, callVars>>

(***************************************************************************)
(* process_movie (main.py 128-140).                                        *)
(***************************************************************************)
MovieSearch ==
    /\ pc = "movie"
    /\ Search(MovieQuery(CurItem), "return")
    /\ media_type' = IF pc' = "download" THEN "films" ELSE media_type
    /\ UNCHANGED <<response, watchlist, idx, season, env, processed, itemDownloads,
                   itemTransfers, downloadsStarted, downloadsDone, transfersStarted,
                   transfersDone, lastDownload, lastTransfer>>

(***************************************************************************)
(* download_and_transfer_torrent (main.py 80-108, tl.py 40-93).            *)
(***************************************************************************)
\* download_torrent(torrent["fid"], torrent["filename"], torrent["filename"])
Download ==
    /\ pc = "download"
    /\ downloadsStarted' = downloadsStarted + 1
    /\ itemDownloads' = itemDownloads + 1
    /\ lastDownload' = [fid |-> torrent.fid, filename |-> torrent.filename,
                        save_to |-> SaveTo(torrent)]
    /\ callItems' = NoteCall
    /\ log' = log \cup {"Downloading torrent: %s"}
    /\ \E ok \in BOOLEAN :
         IF ok
         THEN /\ pc' = "transfer"
              /\ downloadsDone' = downloadsDone + 1
              /\ UNCHANGED raised
         ELSE /\ Propagate("download")
              /\ UNCHANGED downloadsDone
    /\ UNCHANGED <<response, watchlist, idx, season, result, torrent, media_type, env,
                   processed, itemQueries, itemHits, queryAfterHit, itemDT,
                   itemTransfers, lastSearch, searches, transfersStarted,
                   transfersDone, lastTransfer>>

\* scp_file_to_remote(file_path=local_file, ..., remote_path=...), then the return
\* to process_show (next season) or to process_movie (which returns)
Transfer ==
    /\ pc = "transfer"
    /\ transfersStarted' = transfersStarted + 1
    /\ itemTransfers' = itemTransfers + 1
    /\ lastTransfer' = [file_path |-> LocalFile(torrent),
                        remote_path |-> RemotePath(env.REMOTE_PATH_BASE, media_type,
                                                   LocalFile(torrent))]
    /\ callItems' = NoteCall
    /\ \E ok \in BOOLEAN :
         IF ~ok
         THEN /\ Propagate("transfer")
              /\ log' = log \cup {"Transferring file %s to remote server."}
              /\ UNCHANGED <<transfersDone, season>>
         ELSE /\ transfersDone' = transfersDone + 1
              /\ log' = log \cup {"Transferring file %s to remote server.",
                                  "File %s successfully transferred."}
              /\ UNCHANGED raised
              /\ IF media_type = "series"
                 THEN pc' = "show" /\ season' = NextSeason(season)
                 ELSE pc' = "return" /\ UNCHANGED season
    /\ UNCHANGED <<response, watchlist, idx, result, torrent, media_type, env,
                   processed, itemQueries, itemHits, queryAfterHit, itemDT,
                   itemDownloads, lastSearch, searches, downloadsStarted,
                   downloadsDone, lastDownload>>

Next ==
    \/ FetchWatchlist
    \/ BeginItemTypeError
    \/ BeginItem
    \/ MainFinish
    \/ ItemReturns
    \/ ShowSearch
    \/ ShowDone
    \/ MovieSearch
    \/ Download
    \/ Transfer

Spec == Init /\ [][Next]_vars

\* main() is one synchronous thread: a step that can be taken is taken
FairSpec == Spec /\ WF_vars(Next)

(***************************************************************************)
(* Properties.                                                             *)
(***************************************************************************)
InShow == InItem /\ CurItem.type = "show"
InMovie == InItem /\ CurItem.type = "movie"
SeasonSuffixes == <<" S01", " S02", " S03", " S04", " S05", " S06", " S07", " S08", " S09">>
ExpectedShowQueries(title) == [k \in 1..Len(SeasonSuffixes) |-> title \o SeasonSuffixes[k]]
IsPrefix(a, b) == Len(a) <= Len(b) /\ \A k \in 1..Len(a) : a[k] = b[k]
AllProcessedMsg == "All items processed successfully."

\* C1 as stated: process_show stops at the first season with a non-empty result:
\* no season query of the item follows a hit, and the item gets at most one
\* download+transfer.
C1_StopsAtFirstHit ==
    InShow => (itemDT <= 1 /\ ~queryAfterHit)

\* C1 amended: process_show issues 'T S01' .. 'T S09' in that order whatever
\* the outcomes, and calls download+transfer once for every season whose
\* result is non-empty; when the show is finished all nine queries were issued.
C1_AllSeasonsQueried ==
    InShow =>
        /\ IsPrefix(itemQueries, ExpectedShowQueries(CurItem.title))
        /\ itemDT = itemHits
        /\ pc = "return" => Len(itemQueries) = Len(SeasonSuffixes)

C1_Witness ==
    /\ InShow
    /\ pc = "return"
    /\ itemDT >= 2
    /\ itemTransfers >= 2
    /\ itemQueries = ExpectedShowQueries("Bar")

\* C2: the remote path handed to the transfer client is '{base}/{m}/{f}' for
\* media type m and filename f of the candidate being transferred.
C2_RemotePathHasMediaType ==
    (itemTransfers > 0 /\ media_type \in {"series", "films"}) =>
        lastTransfer.remote_path =
            RemotePathWithMediaType(env.REMOTE_PATH_BASE, media_type, lastTransfer.file_path)

AbortedByDownloadOrTransfer == raised \in {"download", "transfer"}
NothingMore ==
    /\ pc' = "failed"
    /\ UNCHANGED <<searches, downloadsStarted, transfersStarted, processed>>

\* C3: once a download or a transfer has raised, the run is failed: no further
\* search, download or transfer happens and the final step is never reached.
C3_DownloadTransferErrorAborts ==
    /\ [](AbortedByDownloadOrTransfer => (pc = "failed" /\ AllProcessedMsg \notin log))
    /\ [][AbortedByDownloadOrTransfer => NothingMore]_vars

C3_Witness ==
    /\ raised = "transfer"
    /\ pc = "failed"
    /\ watchlist.t = "list"
    /\ idx < Len(watchlist.items)

HasWatchlistShape(v) ==
    /\ v.t = "dict"
    /\ "MediaContainer" \in DOMAIN v.d
    /\ v.d["MediaContainer"].t = "dict"
    /\ "Metadata" \in DOMAIN v.d["MediaContainer"].d
    /\ v.d["MediaContainer"].d["Metadata"].t = "list"

BadResponse(r) ==
    \/ r.outcome = "transport_error"
    \/ /\ r.outcome = "http"
       /\ \/ r.status >= HttpErrorFloor
          \/ r.body.b \in {"empty", "blank", "notjson"}
          \/ r.body.b = "json" /\ ~HasWatchlistShape(r.body.val)

\* C4: for every failed outcome of the watchlist call (transport error, error
\* status, empty body, invalid JSON, JSON of another shape) fetch_watchlist
\* returns an empty sequence and no error leaves it.
C4_FailsSoft ==
    (pc # "main" /\ BadResponse(response)) =>
        (raised # "watchlist" /\ watchlist = PyList(<<>>))

NoData(r) == r.outcome # "none" /\ LET got == PlexFetchWatchlist(r)
                                   IN got.exc = "none" /\ ~Truthy(got.ret)

\* C5: when the watchlist retrieval yields an empty list or no data, a warning
\* is logged and the run completes normally without any search, download or
\* transfer.
C5_EmptyWatchlistCompletes ==
    NoData(response) =>
        /\ "No items found in the watchlist." \in log
        /\ watchlist = PyList(<<>>)
        /\ searches = 0 /\ downloadsStarted = 0 /\ transfersStarted = 0
        /\ raised = "none"
        /\ pc \in {"loop", "done"}
        /\ pc = "loop" => ENABLED MainFinish
        /\ pc = "done" => AllProcessedMsg \in log

C5_Witness ==
    /\ NoData(response)
    /\ response.outcome = "http"
    /\ pc = "done"

\* C6: a movie item gets exactly one search, with the query 'T Y'; a non-empty
\* result is followed by exactly one download+transfer call, an empty one by
\* none.
C6_MovieOneQuery ==
    InMovie =>
        /\ pc = "movie" => itemQueries = <<>>
        /\ pc # "movie" =>
             /\ itemQueries = <<CurItem.title \o " " \o ToString(CurItem.year)>>
             /\ CurItem = [title |-> "Foo", type |-> "movie", year |-> 2020]
                   => itemQueries = <<"Foo 2020">>
             /\ itemDT = (IF result = <<>> THEN 0 ELSE 1)
             /\ itemDownloads <= itemDT /\ itemTransfers <= itemDownloads
        /\ pc = "return" => (itemDownloads = itemDT /\ itemTransfers = itemDT)

C6_Witness ==
    /\ InMovie
    /\ pc = "return"
    /\ itemQueries = <<"Foo 2020">>
    /\ itemTransfers = 1

\* C7: what is downloaded and transferred is element 0 of the result list of
\* the search just made, whatever the other elements are.
C7_SelectsFirst ==
    /\ pc \in {"download", "transfer"} => (result # <<>> /\ torrent = result[1])
    /\ (pc = "transfer" \/ raised = "download") =>
            (lastDownload.fid = result[1].fid /\ lastDownload.filename = result[1].filename)
    /\ ((pc \in {"show", "return"} /\ result # <<>>) \/ raised = "transfer") =>
            /\ lastDownload.fid = result[1].fid
            /\ lastDownload.filename = result[1].filename
            /\ lastTransfer.file_path = result[1].filename

C7_Witness ==
    /\ pc = "return"
    /\ Len(result) >= 2
    /\ result[1] # result[2]
    /\ lastTransfer.file_path = result[1].filename
    /\ transfersDone >= 1

Increasing(q) == \A j, k \in 1..Len(q) : j < k => q[j] < q[k]

ItemOrder ==
    /\ Increasing(callItems)
    /\ processed = [k \in 1..Len(processed) |-> k]
    /\ InItem => (Len(processed) = idx - 1 /\ \A k \in 1..Len(callItems) : callItems[k] <= idx)
    /\ pc = "loop" => (Len(processed) = idx - 1 /\ \A k \in 1..Len(callItems) : callItems[k] < idx)
    /\ pc = "done" => Len(processed) = Len(watchlist.items)

\* C8: items are handled one at a time in watchlist order (every client call
\* for item i precedes every call for item i+1, items complete in the order
\* 1..n), and unless an error was raised the run reaches its final state with
\* every item processed, items with only empty results included.
C8_InOrderToCompletion ==
    /\ []ItemOrder
    /\ <>(pc = "done" \/ raised # "none")

C8_Witness ==
    /\ pc = "done"
    /\ Len(watchlist.items) = 2
    /\ processed = <<1, 2>>
    /\ callItems = <<1, 2>>
    /\ downloadsStarted = 0

\* C9 as stated: an error of the search client is contained, it never ends
\* the run.
C9_SearchErrorContained ==
    lastSearch \in {"http_error", "no_torrentList"} => pc # "failed"

\* C9 amended: an error raised by the search client is not caught by the
\* search wrapper nor anywhere else: like a download or transfer error it
\* ends the run, the current and the remaining items are not processed.
C9_SearchErrorPropagates ==
    lastSearch \in {"http_error", "no_torrentList"} =>
        /\ pc = "failed"
        /\ raised = "search"
        /\ Len(processed) = idx - 1
        /\ AllProcessedMsg \notin log

C9_Witness ==
    /\ raised = "search"
    /\ lastSearch = "http_error"
    /\ idx < Len(watchlist.items)

TransferFollowsDownload ==
    /\ transfersStarted <= downloadsDone
    /\ pc = "transfer" =>
          /\ downloadsDone = transfersStarted + 1
          /\ raised = "none"
          /\ lastDownload.save_to = LocalFile(torrent)
TransferIsNext ==
    /\ searches' = searches
    /\ downloadsStarted' = downloadsStarted
    /\ transfersStarted' = transfersStarted + 1
TransferOfDownloadedFile ==
    /\ pc = "transfer"
    /\ lastTransfer'.file_path = lastDownload.save_to
    /\ lastDownload' = lastDownload

\* C10: a transfer is attempted only once the download of the same candidate
\* has returned, with the file the download wrote; transfers attempted never
\* exceed downloads completed, and no search happens between a completed
\* download and its transfer attempt.
C10_TransferAfterDownload ==
    /\ []TransferFollowsDownload
    /\ [][pc = "transfer" => TransferIsNext]_vars
    /\ [][transfersStarted' # transfersStarted => TransferOfDownloadedFile]_vars

C10_Witness ==
    /\ transfersStarted = 2
    /\ downloadsDone = 2
    /\ pc = "show"

====
